---- MODULE Spec2Model ----
(***************************************************************************)
(* Model of the canary release controller, scripts/automate_release.py:    *)
(* main (the retrain / build / deploy pipeline and the release ledger),    *)
(* perform_staged_shift (the four-phase traffic shift), its guard,         *)
(* wait_for_health and check_online_metric; and of the recommendation      *)
(* service, app.py: the handlers recommend and update_online_quality.      *)
(* The counters and histograms the handlers feed and their log lines are   *)
(* not part of the state.                                                  *)
(*                                                                         *)
(* Text is modelled as sequences of one-character strings, so that         *)
(* str.startswith, str.split and float() are computed as Python computes   *)
(* them.  Floats are modelled by the naturals the sample bodies contain.   *)
(***************************************************************************)
EXTENDS Integers, Sequences, FiniteSets, TLC

(***************************************************************************)
(* Bounds of the model.                                                    *)
(***************************************************************************)
\* largest --health-attempts value explored (0 .. MaxAttempts)
MaxAttempts == 3
\* largest number of lines in a metrics response body
MaxLines == 2

(***************************************************************************)
(* Configuration: what parse_args and the environment can yield.           *)
(***************************************************************************)
\* --staged-shift is action="store_true" with default=True: always True
staged_shift == TRUE
\* --stop-old-on-success is action="store_true" with default=True: always True
stop_old_on_success == TRUE
\* --online-metric-name, as a text
online_metric_name == <<"m">>
\* --online-metric-min: <<>> stands for None, <<v>> for the float v
MinValues == {<<>>, <<0>>, <<1>>}
\* BG_TARGET_COLOR is any string of the environment; "red" stands for the others
TargetColors == {"green", "blue", "red"}

Args ==
  [execute : BOOLEAN,
   skip_ingest : BOOLEAN,
   health_attempts : -1..MaxAttempts, \* type=int: zero and negatives parse
   online_metrics_url : BOOLEAN,      \* TRUE: a non-empty URL
   online_metric_min : MinValues]

(***************************************************************************)
(* Text helpers: Python's str.startswith, str.split() and float().         *)
(***************************************************************************)
Whitespace == {" "}
Digits == {"0", "1"}

startswith(line, prefix) ==
  /\ Len(line) >= Len(prefix)
  /\ SubSeq(line, 1, Len(prefix)) = prefix

\* str.split() with no argument: maximal runs of non-whitespace characters
RECURSIVE SplitFrom(_, _, _)
SplitFrom(line, i, cur) ==
  IF i > Len(line)
  THEN IF cur = <<>> THEN <<>> ELSE <<cur>>
  ELSE IF line[i] \in Whitespace
       THEN IF cur = <<>>
            THEN SplitFrom(line, i + 1, <<>>)
            ELSE <<cur>> \o SplitFrom(line, i + 1, <<>>)
       ELSE SplitFrom(line, i + 1, Append(cur, line[i]))

split(line) == SplitFrom(line, 1, <<>>)

DigitValue(c) == IF c = "0" THEN 0 ELSE 1

\* float(tok) raises ValueError unless tok is a numeral
IsFloat(tok) == tok # <<>> /\ \A i \in 1..Len(tok) : tok[i] \in Digits

RECURSIVE FloatOf(_)
FloatOf(tok) ==
  IF tok = <<>> THEN 0
  ELSE 10 * FloatOf(SubSeq(tok, 1, Len(tok) - 1)) + DigitValue(tok[Len(tok)])

(***************************************************************************)
(* Responses of the metrics endpoint.                                      *)
(***************************************************************************)
\* sample lines of a text-exposition body
SampleLines ==
  { <<"m", " ", "0">>,          \* the metric, value 0
    <<"m", " ", "1">>,          \* the metric, value 1
    <<"m", " ", "z">>,          \* the metric, value not a numeral
    <<"m">>,                    \* the metric name alone
    <<"m", "x", " ", "1">>,     \* another metric whose name begins with m
    <<"m", "x", " ", "0">>,
    <<"o", " ", "1">> }         \* an unrelated metric

Bodies == UNION { [1..n -> SampleLines] : n \in 0..MaxLines }

\* kind "error": requests.get raised; otherwise an HTTP status and a body
Responses ==
  { [kind |-> "error", status |-> 0, body |-> <<>>],
    [kind |-> "http", status |-> 500, body |-> <<>>] }
  \cup { [kind |-> "http", status |-> 200, body |-> b] : b \in Bodies }

NoResponse == [kind |-> "none", status |-> 0, body |-> <<>>]

\* the loop of check_online_metric over resp.text.splitlines(), from line i:
\* "pass" / "fail" are its return values True / False
RECURSIVE ScanLines(_, _, _)
ScanLines(body, i, minimum) ==
  IF i > Len(body) THEN "fail"                      \* not found
  ELSE IF startswith(body[i], online_metric_name)
          /\ Len(split(body[i])) >= 2
       THEN IF ~IsFloat(split(body[i])[2]) THEN "fail"      \* ValueError, caught
            ELSE IF FloatOf(split(body[i])[2]) >= minimum THEN "pass" ELSE "fail"
       ELSE ScanLines(body, i + 1, minimum)

\* check_online_metric(url, metric_name, minimum) on the response resp
check_online_metric(url, minimum, resp) ==
  IF ~url \/ minimum = <<>> THEN "pass"
  ELSE IF resp.kind = "error" THEN "fail"           \* RequestException, caught
  ELSE IF resp.status # 200 THEN "fail"             \* raise_for_status, caught
  ELSE ScanLines(resp.body, 1, minimum[1])

(***************************************************************************)
(* State.                                                                  *)
(***************************************************************************)
VARIABLES
  args,            \* the parsed command line (main, lines 212-258)
  target_color,    \* os.environ.get("BG_TARGET_COLOR", "green")
  pc,              \* position of the single thread of control
  release_entry,   \* main's release_entry dict
  ledger,          \* lines of the release log file, oldest first
  exc,             \* the exception in flight, or the one main raised
  phase,           \* index into phases of perform_staged_shift's for loop
  ok,              \* value returned by perform_staged_shift
  probes,          \* requests.get calls of the current wait_for_health call
  hsleeps,         \* time.sleep(interval) calls of the current wait_for_health call
  mqueries,        \* check_online_metric calls of the current guard call
  health,          \* result of wait_for_health in the current guard call
  resp,            \* response read by check_online_metric in the current guard call
  verdict,         \* value the current guard call returns
  cause,           \* which check made the last guard fail (what guard prints)
  log,             \* every external effect so far, in order
  rcFail,          \* some check=False command returned a non-zero exit status
  statuses,        \* outcomes of the probes of the current wait_for_health call
  failed_step,     \* the first run_cmd step whose command did not exit 0, or "none"
  ledger_path,     \* what was at args.release_log at the first append, and is now
  world,           \* app.py: the tables and the model loaded at import
  request,         \* app.py: the request the last handler call served
  response,        \* app.py: what that handler call returned
  gauges           \* app.py: the value each Prometheus gauge holds

cfgVars == <<args, target_color>>
guardVars == <<probes, hsleeps, mqueries, health, resp, verdict, statuses>>
appVars == <<world, request, response, gauges>>
releaseVars == <<args, target_color, pc, release_entry, ledger, exc, phase, ok,
                 probes, hsleeps, mqueries, health, resp, verdict, cause, log,
                 rcFail, statuses, failed_step, ledger_path>>
vars == <<args, target_color, pc, release_entry, ledger, exc, phase, ok,
          probes, hsleeps, mqueries, health, resp, verdict, cause, log, rcFail,
          statuses, failed_step, ledger_path, world, request, response, gauges>>

dry_run == ~args.execute

\* previous_color = "blue" if target_color == "green" else "green"
previous_color == IF target_color = "green" THEN "blue" ELSE "green"

\* variant of initial_color: main cuts over to the target before the shift
initial_color_target == target_color

\* initial_color = previous_color if args.staged_shift else target_color
initial_color == IF staged_shift THEN previous_color ELSE target_color

\* image_tag = f"comp585-recommender:{release_id}"
image_tag == "comp585-recommender:release_id"

(***************************************************************************)
(* Exceptions.  origin tells whether the exception was raised inside       *)
(* main's try block or inside one of its except blocks.                    *)
(***************************************************************************)
NoExc == [type |-> "none", cmd |-> <<>>, at |-> "none", origin |-> "none"]

CalledProcessError(cmd, at) ==
  [type |-> "CalledProcessError", cmd |-> cmd, at |-> at, origin |-> "try"]

Raised(type, at, origin) == [type |-> type, cmd |-> <<>>, at |-> at, origin |-> origin]

\* str(exc)
Str(e) ==
  IF e.type = "CalledProcessError"
  THEN <<"Command '">> \o e.cmd \o <<"' returned non-zero exit status 1.">>
  ELSE <<e.type, e.at>>

(***************************************************************************)
(* External commands and the log of external effects.                      *)
(***************************************************************************)
ingest_cmd == <<"python", "scripts/extract_explicit_ratings.py">>
split_cmd == <<"docker", "run", "scripts/split_train_test_set.py">>
train_cmd == <<"docker", "run", "scripts/train_surprise_models.py">>
eval_cmd == <<"docker", "run", "scripts/offline_evaluation.py">>
bg_cmd == <<"docker", "compose", "build">>
deploy_cmd == <<"bash", "scripts/deploy-blue-green.sh", target_color>>
switch_cmd == <<"bash", "scripts/switch-traffic.sh", initial_color>>
git_cmd == <<"git", "rev-parse", "HEAD">>

\* subprocess.run(["bash", "scripts/switch-traffic.sh", color], check=False)
switch_traffic(color) == <<"bash", "scripts/switch-traffic.sh", color>>

\* the four commands of the "equal" branch of perform_staged_shift
equal_cmds ==
  << <<"docker", "cp", "nginx-equal.conf">>,
     <<"docker", "exec", "cat /tmp/nginx.conf > /etc/nginx/nginx.conf">>,
     <<"docker", "exec", "rm", "-f", "/tmp/nginx.conf">>,
     <<"docker", "exec", "nginx", "-s", "reload">> >>

\* ["docker", "stop", f"recommender-{previous_color}"]
stop_cmd(color) ==
  <<"docker", "stop", IF color = "blue" THEN "recommender-blue" ELSE "recommender-green">>

Cmd(by, cmd) == [op |-> "cmd", by |-> by, arg |-> cmd]
FileWrite(by, name) == [op |-> "file", by |-> by, arg |-> <<name>>]
Sleep(by, what) == [op |-> "sleep", by |-> by, arg |-> <<what>>]
GuardEv(stage, v) == [op |-> "guard", by |-> "shift", arg |-> <<stage, v>>]

\* variant of CommandRaises: every command is run as with check=True
CommandAlwaysChecked(check, rc) == rc # 0

\* variant of CommandRaises: the exit status is never looked at
CommandNeverRaises(check, rc) == FALSE

\* subprocess.run raises CalledProcessError exactly when check is set and the
\* exit status is non-zero
CommandRaises(check, rc) == check /\ rc # 0

ExitCodes == {0, 1}

(***************************************************************************)
(* The phases of perform_staged_shift (lines 129-134).                     *)
(***************************************************************************)
\* variant of phases: equal and new-primary change places
phasesSwapped(target, previous) ==
  << [name |-> "old-primary", color |-> previous],
     [name |-> "new-primary", color |-> target],
     [name |-> "equal", color |-> "None"],
     [name |-> "final", color |-> target] >>

phases(target, previous) ==
  << [name |-> "old-primary", color |-> previous],
     [name |-> "equal", color |-> "None"],
     [name |-> "new-primary", color |-> target],
     [name |-> "final", color |-> target] >>

\* variant of PhaseCmds: old-primary only checks, it issues no command
PhaseCmdsIdleOldPrimary(p) ==
  IF p.name = "old-primary" THEN <<>>
  ELSE IF p.name = "equal" THEN equal_cmds ELSE <<switch_traffic(p.color)>>

\* the commands of one phase's action (lines 143-150)
PhaseCmds(p) ==
  IF p.name = "equal" THEN equal_cmds ELSE <<switch_traffic(p.color)>>

CurPhase == phases(target_color, previous_color)[phase]

(***************************************************************************)
(* Initial state: main has parsed its arguments and built release_entry    *)
(* (lines 258-269).                                                        *)
(***************************************************************************)
NoReason == <<>>

\* what can exist at args.release_log: not even the parent directory, the
\* directory without the file, or the file
LedgerPaths == {"no_dir", "no_file", "file"}

\* main does not look at the path before its first append_release_log call
PathUnseen == [initial |-> "unseen", now |-> "unseen"]

\* the app.py state while the release controller is the program observed
NoWorld == <<>>
NoRequest == [endpoint |-> "none"]
NoResponseYet == [status |-> 0]
NoGauges == <<>>

Init ==
  /\ args \in Args
  /\ target_color \in TargetColors
  /\ pc = "ingest"
  /\ release_entry = [status |-> "pending", reason |-> NoReason, image |-> "None"]
  /\ ledger = <<>>
  /\ exc = NoExc
  /\ phase = 0
  /\ ok = "unset"
  /\ probes = 0
  /\ hsleeps = 0
  /\ mqueries = 0
  /\ health = "none"
  /\ resp = NoResponse
  /\ verdict = "none"
  /\ cause = "none"
  /\ log = <<>>
  /\ rcFail = FALSE
  /\ statuses = <<>>
  /\ failed_step = "none"
  /\ ledger_path = PathUnseen
  /\ world = NoWorld
  /\ request = NoRequest
  /\ response = NoResponseYet
  /\ gauges = NoGauges

(***************************************************************************)
(* main: the pipeline commands (lines 271-358).                            *)
(***************************************************************************)
\* run_cmd(cmd, dry_run) with check=True: skipped in a dry run; otherwise the
\* command runs and exits 0, exits non-zero (CalledProcessError), or cannot
\* be started (OSError).
RunOutcomes == {"exit0", "exit1", "oserror"}

run_cmd(at, cmd, next) ==
  IF dry_run
  THEN /\ pc' = next
       /\ UNCHANGED <<log, exc, failed_step>>
  ELSE \E out \in RunOutcomes :
         /\ log' = Append(log, Cmd("main", cmd))
         /\ failed_step' = IF out # "exit0" /\ failed_step = "none"
                           THEN at ELSE failed_step
         /\ IF out = "oserror"
            THEN /\ exc' = Raised("OSError", at, "try")
                 /\ pc' = "except_exception"
            ELSE IF CommandRaises(TRUE, IF out = "exit0" THEN 0 ELSE 1)
            THEN /\ exc' = CalledProcessError(cmd, at)
                 /\ pc' = "except_called_process_error"
            ELSE /\ exc' = exc
                 /\ pc' = next

Ingest ==
  /\ pc = "ingest"
  /\ IF args.skip_ingest
     THEN pc' = "split" /\ UNCHANGED <<log, exc, failed_step>>
     ELSE run_cmd("ingest", ingest_cmd, "split")
  /\ UNCHANGED <<appVars, cfgVars, release_entry, ledger, ledger_path, phase, ok,
                 guardVars, cause, rcFail>>

Split ==
  /\ pc = "split"
  /\ run_cmd("split", split_cmd, "train")
  /\ UNCHANGED <<appVars, cfgVars, release_entry, ledger, ledger_path, phase, ok,
                 guardVars, cause, rcFail>>

Train ==
  /\ pc = "train"
  /\ run_cmd("train", train_cmd, "provenance")
  /\ UNCHANGED <<appVars, cfgVars, release_entry, ledger, ledger_path, phase, ok,
                 guardVars, cause, rcFail>>

\* write_provenance (lines 178-209), called whatever dry_run is: it runs
\* git rev-parse HEAD through subprocess.check_output, reads the ratings CSV
\* and writes models/<release_id>_provenance.json.
ProvOutcomes == {"written", "git_failed", "io_error"}

WriteProvenance ==
  /\ pc = "provenance"
  /\ \E out \in ProvOutcomes :
       CASE out = "written" ->
              /\ log' = log \o << Cmd("write_provenance", git_cmd),
                                  FileWrite("write_provenance", "provenance.json") >>
              /\ pc' = "eval"
              /\ exc' = exc
         [] out = "git_failed" ->
              /\ log' = Append(log, Cmd("write_provenance", git_cmd))
              /\ exc' = CalledProcessError(git_cmd, "provenance")
              /\ pc' = "except_called_process_error"
         [] out = "io_error" ->
              /\ log' = Append(log, Cmd("write_provenance", git_cmd))
              /\ exc' = Raised("OSError", "provenance", "try")
              /\ pc' = "except_exception"
  /\ UNCHANGED <<appVars, cfgVars, failed_step, release_entry, ledger, ledger_path,
                 phase, ok, guardVars, cause, rcFail>>

Eval ==
  /\ pc = "eval"
  /\ run_cmd("eval", eval_cmd, "build")
  /\ UNCHANGED <<appVars, cfgVars, release_entry, ledger, ledger_path, phase, ok,
                 guardVars, cause, rcFail>>

\* lines 343-349: the image tag is stored, then the build command runs
Build ==
  /\ pc = "build"
  /\ release_entry' = [release_entry EXCEPT !.image = image_tag]
  /\ run_cmd("build", bg_cmd, "deploy")
  /\ UNCHANGED <<appVars, cfgVars, ledger, ledger_path, phase, ok, guardVars, cause,
                 rcFail>>

Deploy ==
  /\ pc = "deploy"
  /\ run_cmd("deploy", deploy_cmd, "switch")
  /\ UNCHANGED <<appVars, cfgVars, release_entry, ledger, ledger_path, phase, ok,
                 guardVars, cause, rcFail>>

Switch ==
  /\ pc = "switch"
  /\ run_cmd("switch", switch_cmd, "staged_shift")
  /\ UNCHANGED <<appVars, cfgVars, release_entry, ledger, ledger_path, phase, ok,
                 guardVars, cause, rcFail>>

(***************************************************************************)
(* perform_staged_shift (lines 111-159).                                   *)
(***************************************************************************)
\* variant of ShiftSkipped: the dry-run test before the loop is missing
ShiftNeverSkipped(dry) == FALSE

\* line 112: a dry run returns True before the phase loop
ShiftSkipped(dry) == dry

\* variant of guard_short_circuits: the metric is checked whatever the health
guard_never_short_circuits(h) == FALSE

\* line 120: a failed wait_for_health makes guard return False at once
guard_short_circuits(h) == h # "ok"

\* line 123: args.online_metrics_url and args.online_metric_min is not None
metric_configured(a) == a.online_metrics_url /\ a.online_metric_min # <<>>

\* variant of RevertCmds: the revert is forgotten
RevertCmdsNone(previous) == <<>>

\* variant of RevertCmds: an abort also stops the previous colour's container
RevertCmdsAndStop(previous) == <<switch_traffic(previous), stop_cmd(previous)>>

\* line 140: the command issued when a guard failed
RevertCmds(previous) == <<switch_traffic(previous)>>

\* line 155: whether the previous colour's container is stopped after the loop
StopCmds(previous) == IF stop_old_on_success THEN <<stop_cmd(previous)>> ELSE <<>>

\* exit statuses of n commands run one after the other
ExitCodeSeqs(n) == [1..n -> ExitCodes]

\* index of the first of the check=False commands that raises; 0 when none does
FirstRaising(rcs) ==
  IF \E i \in DOMAIN rcs : CommandRaises(FALSE, rcs[i])
  THEN CHOOSE i \in DOMAIN rcs :
         /\ CommandRaises(FALSE, rcs[i])
         /\ \A j \in 1..(i - 1) : ~CommandRaises(FALSE, rcs[j])
  ELSE 0

\* subprocess.run(cmd, check=False) for each command of cmds, in order, then
\* control goes to next
RunUnchecked(at, cmds, next) ==
  \E rcs \in ExitCodeSeqs(Len(cmds)) :
    /\ rcFail' = (rcFail \/ \E i \in DOMAIN rcs : rcs[i] # 0)
    /\ IF FirstRaising(rcs) = 0
       THEN /\ log' = log \o [i \in 1..Len(cmds) |-> Cmd("shift", cmds[i])]
            /\ pc' = next
            /\ exc' = exc
       ELSE /\ log' = log \o [i \in 1..FirstRaising(rcs) |-> Cmd("shift", cmds[i])]
            /\ pc' = "except_called_process_error"
            /\ exc' = CalledProcessError(cmds[FirstRaising(rcs)], at)

\* main line 360-361 and perform_staged_shift lines 112-116
StagedShift ==
  /\ pc = "staged_shift"
  /\ IF ~staged_shift
     THEN pc' = "record" /\ UNCHANGED <<ok, phase>>
     ELSE IF ShiftSkipped(dry_run)
     THEN pc' = "record" /\ ok' = "True" /\ UNCHANGED phase
     ELSE pc' = "phase" /\ phase' = 1 /\ UNCHANGED ok
  /\ UNCHANGED <<appVars, cfgVars, failed_step, release_entry, ledger, ledger_path,
                 exc, guardVars, cause, log, rcFail>>

\* line 136-138: the loop takes the next phase and calls guard(name), which
\* calls wait_for_health
PhaseBegin ==
  /\ pc = "phase"
  /\ phase <= Len(phases(target_color, previous_color))
  /\ pc' = "wait_for_health"
  /\ probes' = 0
  /\ hsleeps' = 0
  /\ mqueries' = 0
  /\ health' = "none"
  /\ resp' = NoResponse
  /\ verdict' = "none"
  /\ statuses' = <<>>
  /\ UNCHANGED <<appVars, cfgVars, failed_step, release_entry, ledger, ledger_path,
                 exc, phase, ok, cause, log, rcFail>>

\* wait_for_health (lines 50-59): one iteration of the loop.  A 200 returns
\* True; any other status or a RequestException is followed by a sleep.
ProbeOutcomes == {"200", "500", "RequestException"}

\* line 53: resp.status_code == 200
probe_healthy(r) == r = "200"

\* variant of attempts_left: the loop runs one iteration short
attempts_left_short(n, attempts) == n < attempts - 1

\* variant of attempts_left: the loop runs one iteration more
attempts_left_one_more(n, attempts) == n < attempts + 1

\* line 50: for attempt in range(1, attempts + 1), after n iterations
attempts_left(n, attempts) == n < attempts

\* variant of sleeps_after: no sleep once the last attempt has failed
sleeps_between_attempts(n, attempts) == IF n < attempts THEN 1 ELSE 0

\* line 59: time.sleep(interval) ends the iteration of every failed probe;
\* n is the number of the probe that failed
sleeps_after(n, attempts) == 1

HealthProbe ==
  /\ pc = "wait_for_health"
  /\ attempts_left(probes, args.health_attempts)
  /\ \E r \in ProbeOutcomes :
       /\ probes' = probes + 1
       /\ statuses' = Append(statuses, r)
       /\ IF probe_healthy(r)
          THEN /\ health' = "ok"
               /\ pc' = "guard"
               /\ UNCHANGED hsleeps
          ELSE /\ hsleeps' = hsleeps + sleeps_after(probes', args.health_attempts)
               /\ UNCHANGED <<health, pc>>
  /\ UNCHANGED <<appVars, cfgVars, failed_step, release_entry, ledger, ledger_path,
                 exc, phase, ok, mqueries, resp,
                 verdict, cause, log, rcFail>>

\* wait_for_health line 60: the loop ended without a 200
HealthExhausted ==
  /\ pc = "wait_for_health"
  /\ ~attempts_left(probes, args.health_attempts)
  /\ health' = "fail"
  /\ pc' = "guard"
  /\ UNCHANGED <<appVars, cfgVars, failed_step, release_entry, ledger, ledger_path,
                 exc, phase, ok, probes, hsleeps,
                 mqueries, resp, verdict, statuses, cause, log, rcFail>>

\* line 121: wait_for_health has returned its verdict to guard; the outcomes
\* of its probes are gone with it
HealthReturned ==
  /\ pc = "guard"
  /\ pc' = "health_returned"
  /\ statuses' = <<>>
  /\ UNCHANGED <<appVars, cfgVars, failed_step, release_entry, ledger, ledger_path,
                 exc, phase, ok, probes, hsleeps, mqueries, health, resp, verdict,
                 cause, log, rcFail>>

\* guard (lines 120-127), after wait_for_health returned
Guard ==
  /\ pc = "health_returned"
  /\ IF guard_short_circuits(health)
     THEN /\ verdict' = "fail"
          /\ cause' = "health"
          /\ UNCHANGED <<mqueries, resp>>
     ELSE IF metric_configured(args)
     THEN \E r \in Responses :
            /\ resp' = r
            /\ mqueries' = mqueries + 1
            /\ verdict' = check_online_metric(args.online_metrics_url,
                                              args.online_metric_min, r)
            /\ cause' = IF verdict' = "fail" THEN "metric" ELSE cause
     ELSE /\ verdict' = "pass"
          /\ UNCHANGED <<mqueries, resp, cause>>
  /\ log' = Append(log, GuardEv(CurPhase.name, verdict'))
  /\ statuses' = <<>>
  /\ pc' = "guard_returned"
  /\ UNCHANGED <<appVars, cfgVars, failed_step, release_entry, ledger, ledger_path,
                 exc, phase, ok, probes, hsleeps,
                 health, rcFail>>

\* variant of after_revert: the loop goes on with the action of the phase
after_revert_continue == "action"

\* line 141: return False, the loop is left and main resumes at line 361
after_revert == "record"

\* lines 138-141: a failed guard reverts and returns False
GuardFailed ==
  /\ pc = "guard_returned"
  /\ verdict = "fail"
  /\ RunUnchecked("revert", RevertCmds(previous_color), after_revert)
  /\ ok' = IF pc' = "record" THEN "False" ELSE ok
  /\ resp' = NoResponse
  /\ UNCHANGED <<appVars, cfgVars, failed_step, release_entry, ledger, ledger_path,
                 phase, probes, hsleeps, mqueries,
                 health, verdict, statuses, cause>>

\* line 138: the guard passed, the phase's action is next
GuardPassed ==
  /\ pc = "guard_returned"
  /\ verdict = "pass"
  /\ pc' = "action"
  /\ resp' = NoResponse
  /\ UNCHANGED <<appVars, cfgVars, failed_step, release_entry, ledger, ledger_path,
                 exc, phase, ok, probes, hsleeps,
                 mqueries, health, verdict, statuses, cause, log, rcFail>>

\* lines 143-150: the action of the phase
PhaseAction ==
  /\ pc = "action"
  /\ RunUnchecked("action", PhaseCmds(CurPhase), "soak")
  /\ UNCHANGED <<appVars, cfgVars, failed_step, release_entry, ledger, ledger_path,
                 phase, ok, guardVars, cause>>

\* variant of SoakEvents: no wait after the last phase, which has no next stage
SoakEventsBetweenPhases(p) ==
  IF p.name = "final" THEN <<>> ELSE <<Sleep("shift", "shift_wait")>>

\* line 153: time.sleep(args.shift_wait) at the end of the iteration of phase p
SoakEvents(p) == <<Sleep("shift", "shift_wait")>>

\* lines 152-153: time.sleep(args.shift_wait), then the next iteration
Soak ==
  /\ pc = "soak"
  /\ log' = log \o SoakEvents(CurPhase)
  /\ phase' = phase + 1
  /\ pc' = "phase"
  /\ UNCHANGED <<appVars, cfgVars, failed_step, release_entry, ledger, ledger_path,
                 exc, ok, guardVars, cause, rcFail>>

\* lines 155-159: after the loop
ShiftComplete ==
  /\ pc = "phase"
  /\ phase > Len(phases(target_color, previous_color))
  /\ RunUnchecked("stop", StopCmds(previous_color), "record")
  /\ ok' = IF pc' = "record" THEN "True" ELSE ok
  /\ UNCHANGED <<appVars, cfgVars, failed_step, release_entry, ledger, ledger_path,
                 phase, guardVars, cause>>

(***************************************************************************)
(* main: the release ledger (lines 360-382).                               *)
(***************************************************************************)
\* variant of AbortReason: the reason tells which check failed
AbortReasonByCause(c) ==
  IF c = "metric"
  THEN <<"Online metric below threshold during staged shift.">>
  ELSE <<"Health check failed during staged shift.">>

\* line 364
AbortReason(c) == <<"Staged traffic shift failed">>

\* variant of CommandFailedReason: the reason is str(exc)
CommandFailedStr(e) == Str(e)

\* line 374: f"Command failed: {' '.join(exc.cmd)}"
CommandFailedReason(e) == <<"Command failed: ">> \o e.cmd

\* line 378: the generic handler writes a record only for these statuses
HandlerAppends(status) == status \notin {"aborted", "failed"}

\* append_release_log (lines 40-43) either writes one line or raises OSError
\* and writes nothing
AppendOutcomes == {"written", "oserror"}

\* variant of append_release_log: the file is opened with mode "w"
append_release_log_truncating(lines, entry) == <<entry>>

\* lines 42-43: open(path, "a") and one write of json.dumps(entry) + "\n".
\* lines holds what this run has put after the lines the file began with.
append_release_log(lines, entry) == Append(lines, entry)

\* lines 41-42: mkdir(parents=True, exist_ok=True), then open creates the
\* file; a call that raises may have made the directory already
PathAfter(io, path) ==
  IF io = "written" THEN {"file"}
  ELSE IF path = "no_dir" THEN {"no_dir", "no_file"}
  ELSE {path}

\* the path before and after one append_release_log call: the first call
\* finds the path in any of its states
PathStep(io, lp) ==
  IF lp = PathUnseen
  THEN { [initial |-> pa[1], now |-> pa[2]] :
           pa \in { q \in LedgerPaths \X LedgerPaths : q[2] \in PathAfter(io, q[1]) } }
  ELSE { [initial |-> lp.initial, now |-> a] : a \in PathAfter(io, lp.now) }

\* lines 362-369: the outcome of the shift is recorded
Record ==
  /\ pc = "record"
  /\ \E io \in AppendOutcomes :
       /\ ledger_path' \in PathStep(io, ledger_path)
       /\ IF staged_shift /\ ok = "False"
          THEN /\ release_entry' = [release_entry EXCEPT !.status = "aborted",
                                                         !.reason = AbortReason(cause)]
               /\ IF io = "written"
                  THEN /\ ledger' = append_release_log(ledger, release_entry')
                       /\ exc' = Raised("SystemExit", "record", "try")
                       /\ pc' = "raised"
                  ELSE /\ ledger' = ledger
                       /\ exc' = Raised("OSError", "append_release_log", "try")
                       /\ pc' = "except_exception"
          ELSE /\ release_entry' = [release_entry EXCEPT !.status = "deployed"]
               /\ IF io = "written"
                  THEN /\ ledger' = append_release_log(ledger, release_entry')
                       /\ exc' = exc
                       /\ pc' = "print"
                  ELSE /\ ledger' = ledger
                       /\ exc' = Raised("OSError", "append_release_log", "try")
                       /\ pc' = "except_exception"
  /\ UNCHANGED <<appVars, cfgVars, failed_step, phase, ok, guardVars, cause, log, rcFail>>

\* line 370: print, the last statement of the try block; it raises when
\* standard output cannot take the text (closed pipe, encoding)
PrintOutcomes == {"printed", "raises"}

PrintComplete ==
  /\ pc = "print"
  /\ \E out \in PrintOutcomes :
       IF out = "printed"
       THEN pc' = "returned" /\ exc' = exc
       ELSE pc' = "except_exception" /\ exc' = Raised("OSError", "print", "try")
  /\ UNCHANGED <<appVars, cfgVars, failed_step, release_entry, ledger, ledger_path,
                 phase, ok, guardVars, cause, log,
                 rcFail>>

\* lines 372-376
ExceptCalledProcessError ==
  /\ pc = "except_called_process_error"
  /\ release_entry' = [release_entry EXCEPT !.status = "failed",
                                            !.reason = CommandFailedReason(exc)]
  /\ \E io \in AppendOutcomes :
       /\ ledger_path' \in PathStep(io, ledger_path)
       /\ IF io = "written"
          THEN ledger' = append_release_log(ledger, release_entry') /\ exc' = exc
          ELSE /\ ledger' = ledger
               /\ exc' = Raised("OSError", "append_release_log", "handler")
  /\ pc' = "raised"
  /\ UNCHANGED <<appVars, cfgVars, failed_step, phase, ok, guardVars, cause, log, rcFail>>

\* lines 377-382
ExceptException ==
  /\ pc = "except_exception"
  /\ IF HandlerAppends(release_entry.status)
     THEN /\ release_entry' = [release_entry EXCEPT !.status = "failed",
                                                    !.reason = Str(exc)]
          /\ \E io \in AppendOutcomes :
               /\ ledger_path' \in PathStep(io, ledger_path)
               /\ IF io = "written"
                  THEN /\ ledger' = append_release_log(ledger, release_entry')
                       /\ exc' = exc
                  ELSE /\ ledger' = ledger
                       /\ exc' = Raised("OSError", "append_release_log", "handler")
     ELSE UNCHANGED <<release_entry, ledger, ledger_path, exc>>
  /\ pc' = "raised"
  /\ UNCHANGED <<appVars, cfgVars, failed_step, phase, ok, guardVars, cause, log, rcFail>>

Next ==
  \/ Ingest
  \/ Split
  \/ Train
  \/ WriteProvenance
  \/ Eval
  \/ Build
  \/ Deploy
  \/ Switch
  \/ StagedShift
  \/ PhaseBegin
  \/ HealthProbe
  \/ HealthExhausted
  \/ HealthReturned
  \/ Guard
  \/ GuardFailed
  \/ GuardPassed
  \/ PhaseAction
  \/ Soak
  \/ ShiftComplete
  \/ Record
  \/ PrintComplete
  \/ ExceptCalledProcessError
  \/ ExceptException

Spec == Init /\ [][Next]_vars

\* main is one sequential process: when every probe and every command
\* returns, the statement it is at is eventually executed
FairSpec == Init /\ [][Next]_vars /\ WF_vars(Next)

TypeOK ==
  /\ args \in Args
  /\ pc \in {"ingest", "split", "train", "provenance", "eval", "build", "deploy",
             "switch", "staged_shift", "phase", "wait_for_health", "guard",
             "health_returned",
             "guard_returned", "action", "soak", "record", "print",
             "except_called_process_error", "except_exception", "returned", "raised"}
  /\ ok \in {"unset", "True", "False"}
  /\ verdict \in {"none", "pass", "fail"}
  /\ health \in {"none", "ok", "fail"}
  /\ phase \in 0..5
  /\ probes \in 0..MaxAttempts

(***************************************************************************)
(* app.py: the recommendation service.  Movie ids are modelled by the      *)
(* naturals 1, 2, ... in the order Python gives the id strings; a body is  *)
(* the sequence of its symbols, an id or a comma.                          *)
(***************************************************************************)
\* largest movie id of the catalogues explored
MaxMovies == 22
\* predictions[:20] (line 284)
TopN == 20
\* a missing movie_id of movies.csv, what dropna removes (line 262)
NaN == 0
\* the separator of ",".join (line 339), as a symbol of a body
Comma == 0

\* the <int:user_id> of the route
Users == {1, 2}

\* the movie_id column of movies (lines 104-106), row by row: the ids 1..n,
\* for n none, a few, as many as the answer holds or more, in ascending or
\* descending row order, followed by a row without id, a row that repeats
\* id 1, or both
CatalogueSizes == {0, 2, TopN, MaxMovies}

MovieColumns ==
  { base \o extra :
      base \in UNION { { [i \in 1..n |-> i], [i \in 1..n |-> n + 1 - i] } :
                       n \in CatalogueSizes },
      extra \in { <<>>, <<NaN>>, <<1>>, <<NaN, 1>> } }

\* the ratings table (line 102), row by row
RatingsTables ==
  { <<>>,
    << [user_id |-> 1, movie_id |-> 1] >>,
    << [user_id |-> 1, movie_id |-> 2], [user_id |-> 2, movie_id |-> 3],
       [user_id |-> 1, movie_id |-> 2] >>,
    [i \in 1..MaxMovies |-> [user_id |-> 1, movie_id |-> i]],
    << [user_id |-> 2, movie_id |-> MaxMovies + 1] >> }

\* the pickled model (line 98): model.predict(user_id, movie_id).est
Models == 0..2
est(model, user_id, movie_id) == (model * movie_id + user_id) % 3

\* movies: the movie_id column and the ids whose row has no tmdb_id
Worlds ==
  [movies : MovieColumns, ratings : RatingsTables, model : Models,
   no_tmdb : {{}, {1}}]

\* Series.dropna (line 262)
dropna(col) == SelectSeq(col, LAMBDA x : x # NaN)

\* Series.unique (line 262): the values in order of first appearance
RECURSIVE unique(_)
unique(col) ==
  IF col = <<>> THEN <<>>
  ELSE LET before == unique(SubSeq(col, 1, Len(col) - 1))
           x == col[Len(col)]
       IN IF \E i \in DOMAIN before : before[i] = x THEN before
          ELSE Append(before, x)

\* sorted(...) (line 262), ascending
RECURSIVE sorted(_)
sorted(col) ==
  IF col = <<>> THEN <<>>
  ELSE LET rest == sorted(Tail(col))
           k == Cardinality({i \in DOMAIN rest : rest[i] < Head(col)})
       IN SubSeq(rest, 1, k) \o <<Head(col)>> \o SubSeq(rest, k + 1, Len(rest))

\* line 258: ratings[ratings["user_id"] == user_id]["movie_id"].tolist()
rated_strings(ratings, user_id) ==
  LET rows == SelectSeq(ratings, LAMBDA r : r.user_id = user_id)
  IN [i \in DOMAIN rows |-> rows[i].movie_id]

\* line 268: movie_string not in rated_strings
unrated(movie_string, rated) ==
  \A i \in DOMAIN rated : rated[i] # movie_string

\* lines 262-272: the (movie_string, pred.est) pairs, in catalogue order
predictions(w, user_id) ==
  LET movie_strings == sorted(unique(dropna(w.movies)))
      rated == rated_strings(w.ratings, user_id)
      kept == SelectSeq(movie_strings, LAMBDA m : unrated(m, rated))
  IN [i \in DOMAIN kept |-> <<kept[i], est(w.model, user_id, kept[i])>>]

\* variant of key_before: the score is left out of the key
key_before_by_id(a, b) == a[1] < b[1]

\* line 280: the key (-x[1], x[0]) of a is smaller than that of b
key_before(a, b) == a[2] > b[2] \/ (a[2] = b[2] /\ a[1] < b[1])

\* line 280: predictions.sort(key=...)
RECURSIVE sort_predictions(_)
sort_predictions(ps) ==
  IF ps = <<>> THEN <<>>
  ELSE LET rest == sort_predictions(Tail(ps))
           k == Cardinality({i \in DOMAIN rest : key_before(rest[i], Head(ps))})
       IN SubSeq(rest, 1, k) \o <<Head(ps)>> \o SubSeq(rest, k + 1, Len(rest))

\* a slice list[:n]
head(list, n) == SubSeq(list, 1, IF Len(list) < n THEN Len(list) ELSE n)

\* a stable sort by descending score alone
RECURSIVE sort_by_score(_)
sort_by_score(ps) ==
  IF ps = <<>> THEN <<>>
  ELSE LET rest == sort_by_score(Tail(ps))
           k == Cardinality({i \in DOMAIN rest : rest[i][2] > Head(ps)[2]})
       IN SubSeq(rest, 1, k) \o <<Head(ps)>> \o SubSeq(rest, k + 1, Len(rest))

\* variant of top_movie_strings: the catalogue is visited in row order and
\* the predictions are sorted by score alone
top_movie_strings_in_row_order(w, user_id) ==
  LET rated == rated_strings(w.ratings, user_id)
      kept == SelectSeq(unique(dropna(w.movies)), LAMBDA m : unrated(m, rated))
      ps == [i \in DOMAIN kept |-> <<kept[i], est(w.model, user_id, kept[i])>>]
      top == head(sort_by_score(ps), TopN)
  IN [i \in DOMAIN top |-> top[i][1]]

\* line 284: [m for m, _ in predictions[:20]]
top_movie_strings(w, user_id) ==
  LET top == head(sort_predictions(predictions(w, user_id)), TopN)
  IN [i \in DOMAIN top |-> top[i][1]]

\* line 339: ",".join(top_movie_strings)
RECURSIVE join(_)
join(ids) ==
  IF ids = <<>> THEN <<>>
  ELSE IF Len(ids) = 1 THEN <<ids[1]>>
  ELSE <<ids[1], Comma>> \o join(Tail(ids))

\* what requests.get on the user service gives (lines 238-242): it raises, or
\* it answers with a status and a body that is JSON with some keys, or not JSON
UserKeys == {"user_id", "message"}

Upstreams ==
  { [kind |-> "exception", status |-> 0, json |-> FALSE, keys |-> {}],
    [kind |-> "http", status |-> 500, json |-> FALSE, keys |-> {}],
    [kind |-> "http", status |-> 404, json |-> TRUE, keys |-> {"message"}],
    [kind |-> "http", status |-> 200, json |-> FALSE, keys |-> {}] }
  \cup { [kind |-> "http", status |-> 200, json |-> TRUE, keys |-> k] :
           k \in SUBSET UserKeys }

\* user_data["message"]
UpstreamMessage == <<"user not found">>
ErrorBody == <<"Error!">>

\* line 288: int(x) raises ValueError for the tmdb_id of a row that has none
tmdb_raises(w, top) == \E i \in DOMAIN top : top[i] \in w.no_tmdb

\* variant of upstream_ok: every status below 500 is taken as an answer
upstream_ok_below_500(up) == up.status < 500

\* line 250: user_response.status_code == 200
upstream_ok(up) == up.status = 200

\* recommend(user_id) (lines 220-421): the status and the body it returns
recommend(w, user_id, up) ==
  IF up.kind = "exception"
  THEN [status |-> 500, body |-> ErrorBody]                    \* line 421
  ELSE IF upstream_ok(up)
  THEN IF ~up.json
       THEN [status |-> 500, body |-> ErrorBody]               \* json() raises
       ELSE IF "user_id" \in up.keys
       THEN LET top == top_movie_strings(w, user_id)
            IN IF tmdb_raises(w, top)
               THEN [status |-> 500, body |-> ErrorBody]
               ELSE [status |-> 200, body |-> join(top)]       \* line 343
       ELSE IF "message" \in up.keys
       THEN [status |-> 404, body |-> UpstreamMessage]         \* line 369
       ELSE [status |-> 502, body |-> ErrorBody]               \* line 395
  ELSE [status |-> 502, body |-> ErrorBody]                    \* line 395

\* JSON values a telemetry body can give to the key "value"; "absent": no key
JsonValues ==
  { [type |-> "number", num |-> n, text |-> <<>>] : n \in 0..1 }
  \cup { [type |-> "string", num |-> 0, text |-> t] : t \in {<<"1">>, <<"z">>} }
  \cup { [type |-> "null", num |-> 0, text |-> <<>>],
         [type |-> "absent", num |-> 0, text |-> <<>>] }

\* the body of a POST: not JSON, or the JSON null, a non-empty list, or an object
Payloads ==
  { [json |-> FALSE, type |-> "none", value |-> v] :
      v \in {[type |-> "absent", num |-> 0, text |-> <<>>]} }
  \cup { [json |-> TRUE, type |-> t, value |-> v] :
           t \in {"null", "list"},
           v \in {[type |-> "absent", num |-> 0, text |-> <<>>]} }
  \cup { [json |-> TRUE, type |-> "object", value |-> v] : v \in JsonValues }

\* line 445: data.get("value", 0.0)
value_of(payload) ==
  IF payload.type = "object" /\ payload.value.type # "absent"
  THEN payload.value
  ELSE [type |-> "number", num |-> 0, text |-> <<>>]

\* line 445: float(v) raises TypeError for None, ValueError for a text that
\* is no numeral
float_raises(v) ==
  \/ v.type = "null"
  \/ v.type = "string" /\ ~IsFloat(v.text)

float(v) == IF v.type = "number" THEN v.num ELSE FloatOf(v.text)

\* the gauges app.py binds to a module-level name (lines 182-188)
AppGauges == [POS_RATE |-> 0]

\* update_online_quality() (lines 425-461): the answer and the gauges after it
update_online_quality(payload, g) ==
  IF ~payload.json                                  \* get_json raises
  THEN [status |-> 400, ok |-> FALSE, gauges |-> g]
  ELSE IF payload.type = "list"                     \* a list has no get
  THEN [status |-> 400, ok |-> FALSE, gauges |-> g]
  ELSE IF float_raises(value_of(payload))
  THEN [status |-> 400, ok |-> FALSE, gauges |-> g]
  ELSE IF "ONLINE_QUALITY" \notin DOMAIN g          \* line 447: NameError
  THEN [status |-> 400, ok |-> FALSE, gauges |-> g]
  ELSE [status |-> 200, ok |-> TRUE,
        gauges |-> [g EXCEPT !["ONLINE_QUALITY"] = float(value_of(payload))]]

\* the release controller is not running while the service is observed
InitApp ==
  /\ args = [execute |-> FALSE, skip_ingest |-> FALSE, health_attempts |-> 0,
             online_metrics_url |-> FALSE, online_metric_min |-> <<>>]
  /\ target_color = "green"
  /\ pc = "not_started"
  /\ release_entry = [status |-> "pending", reason |-> NoReason, image |-> "None"]
  /\ ledger = <<>>
  /\ exc = NoExc
  /\ phase = 0
  /\ ok = "unset"
  /\ probes = 0
  /\ hsleeps = 0
  /\ mqueries = 0
  /\ health = "none"
  /\ resp = NoResponse
  /\ verdict = "none"
  /\ cause = "none"
  /\ log = <<>>
  /\ rcFail = FALSE
  /\ statuses = <<>>
  /\ failed_step = "none"
  /\ ledger_path = PathUnseen
  /\ world \in Worlds
  /\ request = NoRequest
  /\ response = NoResponseYet
  /\ gauges = AppGauges

\* GET /recommend/<user_id>
Recommend ==
  /\ \E user_id \in Users, up \in Upstreams :
       /\ request' = [endpoint |-> "/recommend", user_id |-> user_id, upstream |-> up]
       /\ response' = recommend(world, user_id, up)
  /\ UNCHANGED <<world, gauges, releaseVars>>

\* POST /telemetry/online_quality
UpdateOnlineQuality ==
  /\ \E payload \in Payloads :
       LET r == update_online_quality(payload, gauges)
       IN /\ request' = [endpoint |-> "/telemetry/online_quality",
                         payload |-> payload]
          /\ response' = [status |-> r.status, ok |-> r.ok]
          /\ gauges' = r.gauges
  /\ UNCHANGED <<world, releaseVars>>

NextApp ==
  \/ Recommend
  \/ UpdateOnlineQuality

SpecApp == InitApp /\ [][NextApp]_vars

(***************************************************************************)
(* Views of the log used by the properties.                                *)
(***************************************************************************)
IsGuardEv(e) == e.op = "guard"
IsShiftEv(e) == e.by = "shift"

\* the guard evaluations so far, in order, each with its verdict
GuardEvents == SelectSeq(log, IsGuardEv)
\* what the sequencer did so far: guards, commands and sleeps, in order
ShiftLog == SelectSeq(log, IsShiftEv)
\* the stages whose guard was evaluated, in order
PhasesVisited == [i \in 1..Len(GuardEvents) |-> GuardEvents[i].arg[1]]

GuardsPassed == Cardinality({i \in DOMAIN GuardEvents : GuardEvents[i].arg[2] = "pass"})
GuardsFailed == Cardinality({i \in DOMAIN GuardEvents : GuardEvents[i].arg[2] = "fail"})

\* number of times the sequencer issued the command cmd
ShiftCount(cmd) == Cardinality({i \in DOMAIN log : log[i] = Cmd("shift", cmd)})

Last(q) == q[Len(q)]

\* main is past perform_staged_shift
AfterShift ==
  pc \in {"record", "print", "returned", "raised", "except_exception",
          "except_called_process_error"}

AllPhaseNames == <<"old-primary", "equal", "new-primary", "final">>

(***************************************************************************)
(* C1: failed guard: nothing further runs, and the revert.                 *)
(***************************************************************************)
\* the guard first failed at the last guard evaluation, every earlier one passed
FirstFailureIsLast ==
  /\ GuardEvents # <<>>
  /\ Last(GuardEvents).arg[2] = "fail"
  /\ \A j \in 1..(Len(GuardEvents) - 1) : GuardEvents[j].arg[2] = "pass"

\* after the failing guard the sequencer did the revert and nothing else: no
\* action of the failing phase, no later guard, no later action
NothingAfterFailureButRevert ==
  /\ Len(ShiftLog) >= 2
  /\ ShiftLog[Len(ShiftLog) - 1] = Last(GuardEvents)
  /\ Last(ShiftLog) = Cmd("shift", switch_traffic(previous_color))
  /\ PhasesVisited = SubSeq(AllPhaseNames, 1, Len(GuardEvents))

MainLeftFromTry == pc = "returned" \/ (pc = "raised" /\ exc.origin = "try")

\* C2: for every invocation of main that returns normally or leaves through
\* an exception raised inside its try block, exactly one record was appended
\* to the ledger, with status deployed, aborted or failed, never pending.
C2_ExactlyOneLedgerRecord ==
  MainLeftFromTry =>
    /\ Len(ledger) = 1
    /\ ledger[1].status \in {"deployed", "aborted", "failed"}

(***************************************************************************)
(* C3: a dry run has no side effect.                                       *)
(***************************************************************************)
\* C3: in a dry run no external command is executed, no file other than the
\* ledger is written, no HTTP probe is issued and no sleep is called.
C3_DryRunHasNoSideEffects ==
  dry_run =>
    /\ \A i \in DOMAIN log : log[i].op \notin {"cmd", "file", "sleep"}
    /\ probes = 0
    /\ mqueries = 0
    /\ hsleeps = 0

(***************************************************************************)
(* C4: the phases a dry run goes through.                                  *)
(***************************************************************************)
\* C4 as stated: a dry run of the staged shift visits old-primary, equal,
\* new-primary, final in that order, as an execute-mode run whose guards all
\* pass does.
C4_DryRunVisitsAllPhases ==
  (AfterShift /\ ok = "True") => PhasesVisited = AllPhaseNames

\* C4 amended: a dry run of the staged shift visits no phase: it returns
\* True before the phase loop, with no guard evaluated and no action or sleep
\* executed; the execute-mode run whose guards all pass visits the four
\* phases in order, and the two agree in the returned value True only.
C4_DryRunSkipsPhases ==
  /\ dry_run => /\ PhasesVisited = <<>>
                /\ ShiftLog = <<>>
                /\ phase = 0
                /\ ok # "False"
                /\ (pc \in {"record", "print", "returned"} => ok = "True")
  /\ (~dry_run /\ ok = "True") => PhasesVisited = AllPhaseNames

\* a dry run is past perform_staged_shift, which returned True
C4_Witness == dry_run /\ pc = "record" /\ ok = "True" /\ PhasesVisited = <<>>

(***************************************************************************)
(* C5: the run in which every guard passes.                                *)
(***************************************************************************)
\* what the sequencer does, from first to last, when the four guards pass
FullShiftTrace(target, previous) ==
  << GuardEv("old-primary", "pass"),
     Cmd("shift", <<"bash", "scripts/switch-traffic.sh", previous>>),
     Sleep("shift", "shift_wait"),
     GuardEv("equal", "pass"),
     Cmd("shift", <<"docker", "cp", "nginx-equal.conf">>),
     Cmd("shift", <<"docker", "exec", "cat /tmp/nginx.conf > /etc/nginx/nginx.conf">>),
     Cmd("shift", <<"docker", "exec", "rm", "-f", "/tmp/nginx.conf">>),
     Cmd("shift", <<"docker", "exec", "nginx", "-s", "reload">>),
     Sleep("shift", "shift_wait"),
     GuardEv("new-primary", "pass"),
     Cmd("shift", <<"bash", "scripts/switch-traffic.sh", target>>),
     Sleep("shift", "shift_wait"),
     GuardEv("final", "pass"),
     Cmd("shift", <<"bash", "scripts/switch-traffic.sh", target>>),
     Sleep("shift", "shift_wait"),
     Cmd("shift", <<"docker", "stop",
                    IF previous = "blue" THEN "recommender-blue" ELSE "recommender-green">>) >>

DeployedRecord == [status |-> "deployed", reason |-> NoReason, image |-> image_tag]

\* C5: in execute mode, when the four guards pass, the phases run in the
\* order old-primary, equal, new-primary, final, each guard before its
\* phase's action; perform_staged_shift returns True; exactly one stop
\* command, for the previous colour's container, is issued, after the final
\* phase; and when main returns the ledger holds the single record, deployed.
C5_AllGuardsPass ==
  /\ (~dry_run /\ GuardsPassed = 4 /\ AfterShift) =>
       /\ ok = "True"
       /\ ShiftLog = FullShiftTrace(target_color, previous_color)
       /\ ShiftCount(stop_cmd(previous_color)) = 1
  /\ (~dry_run /\ ok = "True") => GuardsPassed = 4
  /\ (~dry_run /\ GuardsPassed = 4 /\ pc \in {"print", "returned"}) =>
       ledger = <<DeployedRecord>>

\* the scenario of the specification: green replaces blue, main returned
C5_Witness ==
  /\ ~dry_run
  /\ target_color = "green"
  /\ previous_color = "blue"
  /\ pc = "returned"
  /\ GuardsPassed = 4
  /\ ShiftCount(<<"docker", "stop", "recommender-blue">>) = 1

(***************************************************************************)
(* C6: the reason recorded for an aborted release.                         *)
(***************************************************************************)
\* the reasons that name the metric check
MetricReasons == { <<"Online metric below threshold during staged shift.">> }

\* C6 as stated: the record of a run aborted by a guard has status aborted
\* and a reason that tells the cause: it mentions the metric exactly when the
\* metric check was what failed.
C6_ReasonIdentifiesCause ==
  \A i \in DOMAIN ledger :
    (ok = "False" /\ ledger[i].status = "aborted") =>
      (cause = "metric" <=> ledger[i].reason \in MetricReasons)

\* C6 amended: the record of a run aborted by a guard has status aborted and
\* the fixed reason "Staged traffic shift failed", the same whether the
\* health check or the metric check failed; which check failed is printed,
\* not recorded.
C6_AbortReasonIsFixed ==
  /\ \A i \in DOMAIN ledger :
       ledger[i].status = "aborted" =>
         /\ ok = "False"
         /\ cause \in {"health", "metric"}
         /\ ledger[i].reason = <<"Staged traffic shift failed">>
  /\ (ok = "False" /\ pc = "raised" /\ exc.type = "SystemExit") =>
       /\ Len(ledger) = 1
       /\ ledger[1].status = "aborted"

\* a run aborted by the metric check has written its record
C6_Witness ==
  /\ ok = "False"
  /\ cause = "metric"
  /\ Len(ledger) = 1
  /\ ledger[1].status = "aborted"

\* a run aborted by the health check has written its record
C6_WitnessHealth ==
  /\ ok = "False"
  /\ cause = "health"
  /\ Len(ledger) = 1
  /\ ledger[1].status = "aborted"

NoFailedRecord == \A i \in DOMAIN ledger : ledger[i].status # "failed"

C7_WitnessAborted ==
  /\ pc = "raised"
  /\ exc.type = "OSError"
  /\ release_entry.status = "aborted"
  /\ ledger = <<>>

(***************************************************************************)
(* C8: exit statuses of traffic and container commands.                    *)
(***************************************************************************)
GuardVerdicts == [i \in 1..Len(GuardEvents) |-> GuardEvents[i].arg[2]]

AsShiftCmds(cmds) == [i \in 1..Len(cmds) |-> Cmd("shift", cmds[i])]

\* what the sequencer does for the guard verdicts vs, from phase i on
RECURSIVE TraceOf(_, _)
TraceOf(vs, i) ==
  IF i > Len(vs)
  THEN IF i > 4 THEN AsShiftCmds(<<stop_cmd(previous_color)>>) ELSE <<>>
  ELSE IF vs[i] = "pass"
       THEN <<GuardEv(AllPhaseNames[i], "pass")>>
            \o AsShiftCmds(IF AllPhaseNames[i] = "equal"
                           THEN equal_cmds
                           ELSE <<switch_traffic(IF i = 1 THEN previous_color
                                                          ELSE target_color)>>)
            \o <<Sleep("shift", "shift_wait")>>
            \o TraceOf(vs, i + 1)
       ELSE <<GuardEv(AllPhaseNames[i], "fail")>>
            \o AsShiftCmds(<<switch_traffic(previous_color)>>)

\* C8: whatever the exit statuses of the traffic and container commands of
\* the staged shift, the phases executed and the value perform_staged_shift
\* returns are those the guard verdicts alone determine, and no such command
\* makes the shift raise.
C8_ExitStatusIgnored ==
  /\ (~dry_run /\ AfterShift /\ GuardEvents # <<>>) =>
       /\ ok = (IF GuardsPassed = 4 THEN "True" ELSE "False")
       /\ ShiftLog = TraceOf(GuardVerdicts, 1)
  /\ exc.at \notin {"action", "revert", "stop"}

\* some command of the shift exited non-zero and the shift went on to return True
C8_Witness == ~dry_run /\ rcFail /\ ok = "True" /\ pc = "returned"

\* some command of the shift exited non-zero in a run whose guard failed
C8_WitnessAbort == ~dry_run /\ rcFail /\ ok = "False" /\ GuardsPassed = 2

(***************************************************************************)
(* C9: health before metric.                                               *)
(***************************************************************************)
\* C9: within one guard evaluation check_online_metric is called at most
\* once, only after wait_for_health returned True in that evaluation, and
\* never when the health check failed.
C9_HealthBeforeMetric ==
  /\ mqueries <= 1
  /\ mqueries = 1 => (health = "ok" /\ probes >= 1)
  /\ resp # NoResponse => health = "ok"
  /\ (pc = "guard_returned" /\ health = "fail") => (verdict = "fail" /\ mqueries = 0)
  /\ pc \in {"wait_for_health", "guard", "health_returned"} => mqueries = 0

\* the metric was queried in an evaluation whose health check needed a retry
C9_Witness ==
  /\ pc = "guard_returned"
  /\ mqueries = 1
  /\ health = "ok"
  /\ probes = 2
  /\ hsleeps = 1

\* the health check failed and the guard returned without a metric query
C9_WitnessFail ==
  /\ pc = "guard_returned"
  /\ metric_configured(args)
  /\ health = "fail"
  /\ probes >= 1
  /\ mqueries = 0

(***************************************************************************)
(* C10: the metric gate fails closed.                                      *)
(***************************************************************************)
\* the lines of body that report the metric: first token equal to the metric
\* name, followed by a value token
MetricLines(body) ==
  { i \in DOMAIN body : /\ Len(split(body[i])) >= 2
                        /\ split(body[i])[1] = online_metric_name }

ValueToken(body, i) == split(body[i])[2]

\* C10: with a metrics URL and a minimum configured, a guard whose health
\* check passed fails when the metric is unreachable, absent, unparsable or
\* below the minimum and passes when its value is at least the minimum;
\* without them the metric step is skipped and the verdict is the result of
\* the health check.
C10_MetricGateFailsClosed ==
  pc = "guard_returned" =>
    IF args.online_metrics_url /\ args.online_metric_min # <<>>
    THEN health = "ok" =>
           LET b == resp.body
               m == args.online_metric_min[1]
           IN /\ mqueries = 1
              /\ (resp.kind = "error" \/ resp.status # 200) => verdict = "fail"
              /\ (resp.status = 200 /\ MetricLines(b) = {}) => verdict = "fail"
              /\ (resp.status = 200 /\ MetricLines(b) # {}
                    /\ \A i \in MetricLines(b) : ~IsFloat(ValueToken(b, i)))
                   => verdict = "fail"
              /\ (resp.status = 200 /\ MetricLines(b) # {}
                    /\ \A i \in MetricLines(b) :
                         IsFloat(ValueToken(b, i)) /\ FloatOf(ValueToken(b, i)) < m)
                   => verdict = "fail"
              /\ (resp.status = 200 /\ MetricLines(b) # {}
                    /\ \A i \in MetricLines(b) :
                         IsFloat(ValueToken(b, i)) /\ FloatOf(ValueToken(b, i)) >= m)
                   => verdict = "pass"
    ELSE /\ mqueries = 0
         /\ verdict = (IF health = "ok" THEN "pass" ELSE "fail")

(***************************************************************************)
(* C11: which line of the body gives the metric its value.                 *)
(***************************************************************************)
\* lines 75-78: the line check_online_metric returns from, the first one that
\* passes both tests of the loop; 0 when the loop ends without one
UsedLine(body) ==
  IF \E i \in DOMAIN body : startswith(body[i], online_metric_name)
                               /\ Len(split(body[i])) >= 2
  THEN CHOOSE i \in DOMAIN body :
         /\ startswith(body[i], online_metric_name) /\ Len(split(body[i])) >= 2
         /\ \A j \in 1..(i - 1) : ~(startswith(body[j], online_metric_name)
                                      /\ Len(split(body[j])) >= 2)
  ELSE 0

\* C11: the value is taken from a line whose first token is the metric name
\* exactly, never from a line whose first token is another name (even one
\* that begins with the metric name), and it is that line's second token;
\* an empty body, a body without such a line and a non-numeric value token
\* make the guard fail.
C11_ValueFromExactNameLine ==
  (pc = "guard_returned" /\ mqueries = 1 /\ resp.kind = "http" /\ resp.status = 200) =>
    LET b == resp.body
        u == UsedLine(b)
    IN /\ u # 0 => split(b[u])[1] = online_metric_name
       /\ verdict = "pass" =>
            /\ u \in MetricLines(b)
            /\ IsFloat(ValueToken(b, u))
            /\ FloatOf(ValueToken(b, u)) >= args.online_metric_min[1]
       /\ b = <<>> => verdict = "fail"
       /\ MetricLines(b) = {} => verdict = "fail"
       /\ (u \in MetricLines(b) /\ ~IsFloat(ValueToken(b, u))) => verdict = "fail"

(***************************************************************************)
(* C12: wait_for_health.                                                   *)
(***************************************************************************)
\* C12: for attempts >= 1, wait_for_health probes one at a time, returns True
\* at the first 200 without a further probe, returns False after exactly
\* `attempts` probes when none was a 200, and treats a non-200 status or a
\* transport error as a failed probe that is not raised to its caller.
C12_HealthProbing ==
  /\ (pc = "wait_for_health" /\ args.health_attempts >= 1) =>
       /\ \A i \in DOMAIN statuses : statuses[i] # "200"
       /\ Len(statuses) <= args.health_attempts
       /\ exc = NoExc
  /\ (pc = "guard" /\ args.health_attempts >= 1) =>
       LET n == Len(statuses)
       IN /\ probes = n
          /\ exc = NoExc
          /\ health \in {"ok", "fail"}
          /\ health = "ok" =>
               /\ n \in 1..args.health_attempts
               /\ statuses[n] = "200"
               /\ \A i \in 1..(n - 1) : statuses[i] # "200"
               /\ hsleeps = n - 1
          /\ health = "fail" =>
               /\ n = args.health_attempts
               /\ \A i \in 1..n : statuses[i] # "200"

\* True at the third probe, after a 500 and a transport error
C12_Witness ==
  /\ pc = "guard"
  /\ health = "ok"
  /\ statuses = <<"500", "RequestException", "200">>

\* False after three probes, none of them a 200
C12_WitnessFalse ==
  /\ pc = "guard"
  /\ health = "fail"
  /\ args.health_attempts = 3
  /\ statuses = <<"500", "500", "500">>

(***************************************************************************)
(* C13: what the old-primary phase does to the traffic.                    *)
(***************************************************************************)
\* a command of the sequencer that reconfigures the traffic: a cutover or
\* one of the commands that install the equal split
IsTrafficCmd(e) ==
  /\ e.op = "cmd"
  /\ e.by = "shift"
  /\ \/ \E c \in TargetColors : e.arg = switch_traffic(c)
     \/ \E i \in DOMAIN equal_cmds : e.arg = equal_cmds[i]

\* the traffic commands issued after the first guard evaluation (that of
\* old-primary) and before the second (that of equal)
OldPrimaryTraffic ==
  LET g == {i \in DOMAIN log : IsGuardEv(log[i])}
      first == CHOOSE i \in g : \A j \in g : i <= j
      rest == g \ {first}
      second == IF rest = {} THEN Len(log) + 1
                ELSE CHOOSE i \in rest : \A j \in rest : i <= j
  IN IF g = {} THEN <<>>
     ELSE SelectSeq(SubSeq(log, first + 1, second - 1), IsTrafficCmd)

\* the guard of old-primary was evaluated and passed
OldPrimaryPassed == GuardEvents # <<>> /\ GuardEvents[1].arg[2] = "pass"

PipelineSteps == {"split", "train", "eval", "build", "deploy"}

IsMainCmd(e) == e.op = "cmd" /\ e.by = "main"

\* the commands main ran through run_cmd so far, in order
MainCmds ==
  LET evs == SelectSeq(log, IsMainCmd) IN [i \in DOMAIN evs |-> evs[i].arg]

\* C14: in execute mode the first guard is evaluated only after the split,
\* train, evaluation, build and deploy commands each exited 0, in that order;
\* when one of them fails no guard is evaluated, the sequencer issues no
\* command, and the attempt is marked failed and its record appended (the
\* record is in the ledger whenever that append returns).
C14_PipelineGatesShift ==
  /\ phase >= 1 =>
       /\ ~dry_run
       /\ failed_step = "none"
       /\ SubSeq(MainCmds, IF args.skip_ingest THEN 1 ELSE 2, Len(MainCmds))
            = <<split_cmd, train_cmd, eval_cmd, bg_cmd, deploy_cmd, switch_cmd>>
  /\ failed_step \in PipelineSteps =>
       /\ GuardEvents = <<>>
       /\ ShiftLog = <<>>
       /\ phase = 0
       /\ pc \in {"except_called_process_error", "except_exception", "raised"}
       /\ exc.at \in {failed_step, "append_release_log"}
       /\ pc = "raised" =>
            /\ release_entry.status = "failed"
            /\ exc.origin = "try" => ledger = <<release_entry>>
            /\ exc.origin = "handler" => ledger = <<>>

\* the first guard is being evaluated after the whole pipeline
C14_Witness ==
  /\ pc = "guard_returned"
  /\ phase = 1
  /\ ~args.skip_ingest
  /\ Len(MainCmds) = 7

\* the evaluation command failed and the attempt was recorded as failed
C14_WitnessFailed ==
  /\ pc = "raised"
  /\ failed_step = "eval"
  /\ exc.type = "CalledProcessError"
  /\ Len(ledger) = 1
  /\ ledger[1].status = "failed"

(***************************************************************************)
(* C15: the ledger is append-only.                                         *)
(***************************************************************************)
IsPrefix(a, b) == Len(a) <= Len(b) /\ SubSeq(b, 1, Len(a)) = a

\* the step is one that calls append_release_log (lines 365, 369, 375, 381)
AppendCalled ==
  \/ pc \in {"record", "except_called_process_error"}
  \/ pc = "except_exception" /\ HandlerAppends(release_entry.status)

\* the call of the step raised
AppendRaised == exc' # exc /\ exc'.at = "append_release_log"

\* C15: every step leaves the lines the ledger had as a prefix of the lines
\* it has; a call of append_release_log that returns adds exactly one line,
\* the entry it was given, after them, and the file then exists whatever was
\* at its path before (nothing, or only the directory); a call that raises
\* and a step without a call add nothing.
C15_LedgerAppendOnly ==
  [][ /\ IsPrefix(ledger, ledger')
      /\ (AppendCalled /\ ~AppendRaised) =>
           /\ ledger' = ledger \o <<release_entry'>>
           /\ ledger_path'.now = "file"
      /\ ~(AppendCalled /\ ~AppendRaised) =>
           /\ ledger' = ledger
           /\ ledger_path'.now # "file" => ledger = <<>>
    ]_vars

\* two calls returned; the first one found no directory and made the file
C15_Witness ==
  /\ Len(ledger) = 2
  /\ ledger_path = [initial |-> "no_dir", now |-> "file"]

(***************************************************************************)
(* C16: the image field of a record.                                       *)
(***************************************************************************)
\* the build command ran in this invocation and exited 0
BuildSucceeded ==
  /\ \E i \in DOMAIN log : log[i] = Cmd("main", bg_cmd)
  /\ failed_step # "build"
  /\ pc # "build"

\* C16: in every record of the ledger, image is non-null only if the build
\* command completed successfully in this invocation; a record written
\* because the build command failed has image null.
C16_ImageOnlyAfterBuild ==
  \A i \in DOMAIN ledger :
    /\ ledger[i].image # "None" => BuildSucceeded
    /\ failed_step = "build" => ledger[i].image = "None"

(***************************************************************************)
(* C17: the pair of colours.                                               *)
(***************************************************************************)
Colors == {"blue", "green"}

\* main has computed target_color and previous_color (lines 351-352)
ColorsComputed ==
  pc \in {"deploy", "switch", "staged_shift", "phase", "wait_for_health", "guard",
          "health_returned", "guard_returned", "action", "soak", "record", "print",
          "returned"}

\* C17: whatever BG_TARGET_COLOR holds, previous_color differs from
\* target_color, both are members of {blue, green}, and previous_color is the
\* other member.
C17_PreviousIsComplement ==
  ColorsComputed =>
    /\ previous_color # target_color
    /\ target_color \in Colors
    /\ previous_color \in Colors
    /\ Colors = {target_color, previous_color}

(***************************************************************************)
(* C18: POST /telemetry/online_quality.                                    *)
(***************************************************************************)
\* the body is a JSON object whose "value" is a number
NumericValue(payload) ==
  payload.json /\ payload.type = "object" /\ payload.value.type = "number"

\* C18: a body {"value": v} with v numeric stores v in a gauge and is
\* answered 200 with ok true; 400 is answered only when the body cannot be
\* parsed or the value cannot be converted to a float.
C18_NumericValueIsStored ==
  request.endpoint = "/telemetry/online_quality" =>
    LET p == request.payload
    IN /\ NumericValue(p) =>
            /\ response.status = 200
            /\ response.ok
            /\ \E g \in DOMAIN gauges : gauges[g] = p.value.num
       /\ response.status = 400 =>
            \/ ~p.json
            \/ p.type = "list"
            \/ float_raises(value_of(p))

(***************************************************************************)
(* C19, C20: the answer of GET /recommend/<user_id>.                       *)
(***************************************************************************)
\* str.split(","), as the tests read a body (test_app.py lines 83, 103, 113)
RECURSIVE SplitComma(_)
SplitComma(text) ==
  IF \A i \in DOMAIN text : text[i] # Comma THEN <<text>>
  ELSE LET k == CHOOSE i \in DOMAIN text :
                  text[i] = Comma /\ \A j \in 1..(i - 1) : text[j] # Comma
       IN <<SubSeq(text, 1, k - 1)>> \o SplitComma(SubSeq(text, k + 1, Len(text)))

\* the ids a body lists: none for the empty body
ListedIds(body) == IF body = <<>> THEN <<>> ELSE SplitComma(body)

\* the movies the user has rated, and the ids of the catalogue
RatedBy(user_id) ==
  { world.ratings[i].movie_id :
      i \in { j \in DOMAIN world.ratings : world.ratings[j].user_id = user_id } }
CatalogueIds == { world.movies[i] : i \in DOMAIN world.movies } \ {NaN}

\* a is recommended before b: higher predicted score, or the same score and
\* the smaller id
Better(user_id, a, b) ==
  \/ est(world.model, user_id, a) > est(world.model, user_id, b)
  \/ est(world.model, user_id, a) = est(world.model, user_id, b) /\ a < b

\* C19: a 200 answer lists at most 20 ids, pairwise distinct, none rated by
\* the user, all of the catalogue, in order of descending score with ties by
\* ascending id, and no unrated catalogue id left out is better than a
\* listed one.
C19_TopUnratedByScore ==
  (request.endpoint = "/recommend" /\ response.status = 200) =>
    LET u == request.user_id
        ids == ListedIds(response.body)
        candidates == CatalogueIds \ RatedBy(u)
    IN /\ Len(ids) <= TopN
       /\ \A i \in DOMAIN ids : Len(ids[i]) = 1 /\ ids[i][1] \in candidates
       /\ \A i, j \in DOMAIN ids :
            i < j => ids[i] # ids[j] /\ Better(u, ids[i][1], ids[j][1])
       /\ \A m \in candidates :
            \/ \E i \in DOMAIN ids : ids[i] = <<m>>
            \/ Len(ids) = TopN /\ \A i \in DOMAIN ids : Better(u, ids[i][1], m)

\* twenty ids out of more candidates, for a user with a rated catalogue
\* movie and a model whose scores both differ and tie
C19_Witness ==
  /\ request.endpoint = "/recommend"
  /\ response.status = 200
  /\ Len(ListedIds(response.body)) = TopN
  /\ Cardinality(CatalogueIds \ RatedBy(request.user_id)) > TopN
  /\ RatedBy(request.user_id) \cap CatalogueIds # {}
  /\ world.model = 1

\* C20: a 200 answer has a non-empty body and every comma-separated element
\* of it is a non-empty id.
C20_BodyNeverEmpty ==
  (request.endpoint = "/recommend" /\ response.status = 200) =>
    /\ response.body # <<>>
    /\ \A i \in DOMAIN SplitComma(response.body) : SplitComma(response.body)[i] # <<>>

(***************************************************************************)
(* C21: GET /recommend/<user_id> is deterministic.                         *)
(***************************************************************************)
\* the columns a and b hold the same rows, in any order
SameRows(a, b) ==
  /\ Len(a) = Len(b)
  /\ \A x \in 0..MaxMovies :
       Cardinality({i \in DOMAIN a : a[i] = x}) = Cardinality({i \in DOMAIN b : b[i] = x})

\* C21: a request that repeats the one before it, against the same model,
\* ratings and catalogue, gets the same answer, and the answer to a request
\* is the one it would get were the rows of the catalogue in any other
\* order, whether predicted scores tie or not.
C21_SameRequestSameBody ==
  /\ [][ (request' = request /\ world' = world) => response' = response ]_vars
  /\ [](request.endpoint = "/recommend" =>
          \A c \in MovieColumns :
            SameRows(c, world.movies) =>
              recommend([world EXCEPT !.movies = c], request.user_id,
                        request.upstream) = response)

\* twenty of twenty-two movies whose scores all tie, from a catalogue whose
\* rows are in descending order of id
C21_Witness ==
  /\ request.endpoint = "/recommend"
  /\ response.status = 200
  /\ world.model = 0
  /\ Len(world.movies) = MaxMovies
  /\ world.movies[1] = MaxMovies
  /\ Len(ListedIds(response.body)) = TopN

(***************************************************************************)
(* C22: the status of GET /recommend/<user_id>.                            *)
(***************************************************************************)
\* an exception is raised while the request is handled: by requests.get, by
\* json() on a body that is not JSON, or by int() on a missing tmdb_id
HandlingRaises ==
  LET up == request.upstream
  IN \/ up.kind = "exception"
     \/ up.status = 200 /\ ~up.json
     \/ /\ up.status = 200
        /\ "user_id" \in up.keys
        /\ tmdb_raises(world, top_movie_strings(world, request.user_id))

\* C22: the answer has exactly one of four statuses: 500 when an exception
\* is raised while handling; otherwise 200 when upstream answered 200 with
\* user_id, 404 with the upstream message when it answered 200 with message
\* and no user_id, and 502 when it answered another status or a 200 body
\* with neither key.
C22_StatusByUpstreamOutcome ==
  request.endpoint = "/recommend" =>
    LET up == request.upstream
        raises == HandlingRaises
    IN /\ response.status \in {200, 404, 500, 502}
       /\ response.status = 500 <=> raises
       /\ ~raises =>
            /\ response.status = 200 <=> (up.status = 200 /\ "user_id" \in up.keys)
            /\ response.status = 404 <=>
                 (up.status = 200 /\ "message" \in up.keys /\ "user_id" \notin up.keys)
            /\ response.status = 404 => response.body = UpstreamMessage
            /\ response.status = 502 <=> (up.status # 200 \/ up.keys = {})

\* upstream answered 404 with a message: the service answers 502
C22_Witness ==
  /\ request.endpoint = "/recommend"
  /\ request.upstream.status = 404
  /\ "message" \in request.upstream.keys
  /\ response.status = 502

\* upstream answered 200 with a message only: the service answers 404
C22_WitnessNotFound ==
  /\ request.endpoint = "/recommend"
  /\ request.upstream.status = 200
  /\ request.upstream.keys = {"message"}
  /\ response = [status |-> 404, body |-> UpstreamMessage]

(***************************************************************************)
(* C23: the soak sleeps.                                                   *)
(***************************************************************************)
IsSoak(e) == e = Sleep("shift", "shift_wait")

\* a guard passed and the iteration of its phase has not reached its sleep
InPassedPhase == pc \in {"guard_returned", "action", "soak"} /\ verdict = "pass"

\* C23: the sequencer sleeps the soak duration once after the action of
\* every phase whose guard passed and before the next guard (four times in a
\* run whose guards all pass, the last time after the final phase and before
\* the stop of the old container), and never after a failed guard.
C23_OneSoakPerPassedPhase ==
  phase >= 1 =>
    LET sl == ShiftLog
        soaks == {i \in DOMAIN sl : IsSoak(sl[i])}
        passes == {i \in DOMAIN sl : sl[i].op = "guard" /\ sl[i].arg[2] = "pass"}
        fails == {i \in DOMAIN sl : sl[i].op = "guard" /\ sl[i].arg[2] = "fail"}
    IN /\ \A i \in soaks :
            /\ i > 1 /\ sl[i - 1].op = "cmd"
            /\ i < Len(sl) =>
                 \/ sl[i + 1].op = "guard"
                 \/ i + 1 = Len(sl) /\ sl[i + 1] = Cmd("shift", stop_cmd(previous_color))
            /\ \A f \in fails : i < f
       /\ Cardinality(soaks) = Cardinality(passes) - (IF InPassedPhase THEN 1 ELSE 0)
       /\ ok = "True" =>
            /\ Cardinality(soaks) = 4
            /\ IsSoak(sl[Len(sl) - 1])
            /\ Last(sl) = Cmd("shift", stop_cmd(previous_color))

\* all four guards passed: four sleeps, then the stop
C23_Witness ==
  /\ ok = "True"
  /\ ~dry_run
  /\ Cardinality({i \in DOMAIN log : IsSoak(log[i])}) = 4

\* the guard of new-primary failed after two sleeps
C23_WitnessAbort ==
  /\ ok = "False"
  /\ PhasesVisited = <<"old-primary", "equal", "new-primary">>
  /\ Cardinality({i \in DOMAIN log : IsSoak(log[i])}) = 2

(***************************************************************************)
(* C24: the stop of the previous colour's container.                       *)
(***************************************************************************)
IsStopCmd(e) == e.op = "cmd" /\ e.arg[1] = "docker" /\ e.arg[2] = "stop"

\* C24: a container stop command is issued only after the guard of the final
\* phase passed and the action of the final phase ran, it names the previous
\* colour's container, and it is issued at most once; a run in which a guard
\* failed issues no container stop command.
C24_StopOnlyAtComplete ==
  LET stops == {i \in DOMAIN log : IsStopCmd(log[i])}
  IN /\ Cardinality(stops) <= 1
     /\ GuardsFailed > 0 => stops = {}
     /\ \A i \in stops :
          /\ stop_old_on_success
          /\ log[i] = Cmd("shift", stop_cmd(previous_color))
          /\ GuardsPassed = 4
          /\ \E g \in 1..(i - 1) :
               /\ log[g] = GuardEv("final", "pass")
               /\ \E j \in (g + 1)..(i - 1) :
                    log[j] = Cmd("shift", switch_traffic(target_color))

\* the stop was issued, after four passed guards
C24_Witness ==
  /\ \E i \in DOMAIN log : IsStopCmd(log[i])
  /\ GuardsPassed = 4

\* a guard failed, the revert was issued and no container was stopped
C24_WitnessAbort ==
  /\ GuardsFailed = 1
  /\ AfterShift
  /\ Last(ShiftLog) = Cmd("shift", switch_traffic(previous_color))

(***************************************************************************)
(* C25: a failed guard ends the sequence.                                  *)
(***************************************************************************)
IsFailedGuard(e) == e.op = "guard" /\ e.arg[2] = "fail"

\* C25: within one invocation the guard of each phase is evaluated at most
\* once, so at most four guards are evaluated, and once a guard has failed
\* the sequencer evaluates no guard, runs no phase action and sleeps no more:
\* it only issues the revert to the previous colour.
C25_FailedGuardIsTerminal ==
  phase >= 1 =>
    LET sl == ShiftLog
        guards == {i \in DOMAIN sl : sl[i].op = "guard"}
    IN /\ Cardinality(guards) <= 4
       /\ \A i, j \in guards : sl[i].arg[1] = sl[j].arg[1] => i = j
       /\ \A f \in guards :
            IsFailedGuard(sl[f]) =>
              \/ f = Len(sl) /\ ~AfterShift
              \/ /\ f + 1 = Len(sl)
                 /\ sl[f + 1] = Cmd("shift", switch_traffic(previous_color))
       /\ (ok = "False" /\ AfterShift) => IsFailedGuard(sl[Len(sl) - 1])

\* the third guard failed and main went on to its ledger
C25_Witness ==
  /\ AfterShift
  /\ ok = "False"
  /\ GuardVerdicts = <<"pass", "pass", "fail">>

(***************************************************************************)
(* C26: the staged shift terminates.                                       *)
(***************************************************************************)
ShiftStarted == pc = "phase" /\ phase = 1
\* Complete (True returned) or Aborted (False returned)
ShiftEnded == pc = "record" /\ ok \in {"True", "False"}

\* C26: when every probe and every command returns, a staged shift that
\* entered its loop eventually returns True or False, after at most four
\* guard evaluations, each with at most health_attempts probes (none when
\* health_attempts is not positive) and at most one metric query.
C26_ShiftTerminates ==
  /\ ShiftStarted ~> ShiftEnded
  /\ [](/\ probes <= (IF args.health_attempts > 0 THEN args.health_attempts ELSE 0)
        /\ mqueries <= 1
        /\ phase >= 1 => Len(GuardEvents) <= 4)

\* the shift ended at the fourth guard, which used up every probe
C26_Witness ==
  /\ ShiftEnded
  /\ ok = "False"
  /\ Len(GuardEvents) = 4
  /\ args.health_attempts > 0
  /\ probes = args.health_attempts

(***************************************************************************)
(* C27: no cutover to the target colour before three guards passed.        *)
(***************************************************************************)
IsCutoverTo(e, color) == e.op = "cmd" /\ e.arg = switch_traffic(color)

PassedBefore(i, stage) == \E g \in 1..(i - 1) : log[g] = GuardEv(stage, "pass")

\* C27: in execute mode every command that routes all traffic to the target
\* colour, issued by main or by the sequencer, comes after the guards of
\* old-primary, equal and new-primary passed; the initial switch of main and
\* the action of old-primary address the previous colour.
C27_NoEarlyCutoverToTarget ==
  ~dry_run =>
    /\ \A i \in DOMAIN log :
         IsCutoverTo(log[i], target_color) =>
           /\ PassedBefore(i, "old-primary")
           /\ PassedBefore(i, "equal")
           /\ PassedBefore(i, "new-primary")
    /\ switch_cmd = switch_traffic(previous_color)
    /\ \A i \in DOMAIN log :
         (log[i] = GuardEv("old-primary", "pass") /\ i < Len(log)) =>
           log[i + 1] = Cmd("shift", switch_traffic(previous_color))
    /\ \A i \in DOMAIN log :
         IsMainCmd(log[i]) /\ log[i].arg[2] = "scripts/switch-traffic.sh" =>
           log[i].arg = switch_traffic(previous_color)

\* the new-primary action cut over to the target after three passed guards
C27_Witness ==
  /\ ~dry_run
  /\ Len(GuardEvents) = 3
  /\ GuardsPassed = 3
  /\ Last(log) = Cmd("shift", switch_traffic(target_color))

\* main issued its initial switch, to the previous colour
C27_WitnessInitial ==
  /\ ~dry_run
  /\ pc = "staged_shift"
  /\ Last(log) = Cmd("main", switch_traffic(previous_color))

(***************************************************************************)
(* C28: what the ledger record says about the guards and the traffic.      *)
(***************************************************************************)
IsRoutingCmd(e) ==
  /\ e.op = "cmd"
  /\ \/ e.arg[2] = "scripts/switch-traffic.sh"
     \/ \E i \in DOMAIN equal_cmds : e.arg = equal_cmds[i]

\* the traffic commands issued so far by main and by the sequencer
RoutingCmds == SelectSeq(log, IsRoutingCmd)

\* what holds of the guards and the traffic for a record of this status
RecordJustified(status) ==
  LET rc == RoutingCmds
      gv == GuardVerdicts
  IN /\ status = "deployed" =>
          /\ gv = <<"pass", "pass", "pass", "pass">>
          /\ PhasesVisited = AllPhaseNames
          /\ rc # <<>> /\ Last(rc).arg = switch_traffic(target_color)
     /\ status = "aborted" =>
          /\ \E i \in DOMAIN gv : gv[i] = "fail"
          /\ rc # <<>> /\ Last(rc).arg = switch_traffic(previous_color)

\* C28: in execute mode, when main appends a ledger record, the status
\* deployed means that the four guards were evaluated and passed and that
\* the last traffic command was a cutover to the target colour, and the
\* status aborted means that a guard failed and that the last traffic
\* command was a cutover to the previous colour.
C28_RecordMatchesShift ==
  ~dry_run =>
    /\ pc = "record" => RecordJustified(IF ok = "False" THEN "aborted" ELSE "deployed")
    /\ \A i \in DOMAIN ledger : RecordJustified(ledger[i].status)

\* a deployed record was appended in execute mode
C28_Witness ==
  /\ ~dry_run
  /\ ledger # <<>>
  /\ Last(ledger).status = "deployed"

\* an aborted record was appended in execute mode
C28_WitnessAborted ==
  /\ ~dry_run
  /\ ledger # <<>>
  /\ Last(ledger).status = "aborted"
  /\ Len(GuardEvents) = 3

(***************************************************************************)
(* C29: the ledger of a dry run.                                           *)
(***************************************************************************)
\* C29: a dry run of main that raises no exception appends exactly one
\* ledger record, with the status deployed and the image tag of the release,
\* although it evaluated no guard, ran no phase and ran none of the ingest,
\* split, train, evaluation, build, deploy and switch commands.
C29_DryRunRecordsDeployed ==
  (dry_run /\ pc = "returned") =>
    /\ Len(ledger) = 1
    /\ ledger[1].status = "deployed"
    /\ ledger[1].image = image_tag
    /\ ledger[1].image # "None"
    /\ exc = NoExc
    /\ GuardEvents = <<>>
    /\ ShiftLog = <<>>
    /\ MainCmds = <<>>
    /\ phase = 0

\* a dry run returned from main
C29_Witness ==
  /\ dry_run
  /\ pc = "returned"
  /\ ledger = <<DeployedRecord>>

(***************************************************************************)
(* C30: the sleeps of wait_for_health.                                     *)
(***************************************************************************)
FailedProbes == Cardinality({i \in DOMAIN statuses : ~probe_healthy(statuses[i])})

\* C30: in execute mode wait_for_health sleeps once after every probe that
\* failed, the last one included: `attempts` sleeps when every probe failed,
\* k-1 sleeps when probe k is the first to succeed.  For attempts <= 0 it
\* returns False without a probe: the guard of old-primary fails, the
\* sequencer reverts to the previous colour and main marks the release
\* aborted (its record is in the ledger whenever the append returns).
C30_SleepsOfWaitForHealth ==
  /\ pc \in {"wait_for_health", "guard"} =>
       /\ probes = Len(statuses)
       /\ hsleeps = FailedProbes
  /\ pc = "guard" =>
       /\ health = "fail" =>
            /\ hsleeps = probes
            /\ args.health_attempts >= 1 => hsleeps = args.health_attempts
       /\ health = "ok" =>
            /\ probe_healthy(statuses[probes])
            /\ hsleeps = probes - 1
  /\ (args.health_attempts <= 0 /\ phase >= 1) =>
       /\ phase = 1
       /\ probes = 0 /\ hsleeps = 0
       /\ pc = "guard" => health = "fail"
       /\ pc \in {"guard_returned", "action", "soak"} => verdict = "fail"
       /\ AfterShift =>
            /\ ok = "False"
            /\ ShiftLog = <<GuardEv("old-primary", "fail"),
                            Cmd("shift", switch_traffic(previous_color))>>
       /\ pc = "raised" =>
            /\ release_entry.status = "aborted"
            /\ exc.type = "SystemExit" <=> ledger = <<release_entry>>
            /\ exc.type # "SystemExit" => ledger = <<>>

\* wait_for_health returned False after as many sleeps as attempts
C30_Witness ==
  /\ pc = "guard"
  /\ health = "fail"
  /\ args.health_attempts = MaxAttempts
  /\ hsleeps = MaxAttempts

\* the second probe succeeded after one sleep
C30_WitnessSecond ==
  /\ pc = "guard"
  /\ health = "ok"
  /\ probes = 2
  /\ hsleeps = 1

\* a negative attempts value: no probe, the release aborted and recorded
C30_WitnessNoProbe ==
  /\ args.health_attempts < 0
  /\ pc = "raised"
  /\ probes = 0
  /\ ledger # <<>>
  /\ Last(ledger).status = "aborted"

====
